---- MODULE Spec2Model ----
(***************************************************************************)
(* A model of the CSV optimizer of server/src/services/csvOptimizer.ts:    *)
(* CSVOptimizer.optimizeRow, optimizeAllRows, findOptimalSubset,           *)
(* generateAllSubsetSums, findBestSum and validateRow.                     *)
(*                                                                         *)
(* A batch of rows is fixed by Init.  validateRow is called on rows of the *)
(* batch, and optimizeAllRows maps optimizeRow over the batch, one row     *)
(* after the other; the combination loop of findOptimalSubset advances     *)
(* one left subset per step.  Further specifications model the callers and *)
(* neighbours of the optimizer: concurrent per-row tasks, the rate         *)
(* limiting middleware, findBestSum called on its own and step by step,    *)
(* the CSV routes with CSVParser, and the price comparison routes with     *)
(* PriceScrapingService.getPriceComparison.                                *)
(*                                                                         *)
(* Numbers.  The rows hold JavaScript numbers (the parser reads them with  *)
(* parseFloat), so every + and - of the code is an IEEE-754 operation that *)
(* rounds its exact result to the nearest representable value, ties to the *)
(* even significand.  A number is modelled as an integer count of a fixed  *)
(* unit; a value is representable when it has at most Precision            *)
(* significant bits.  binary64 has 53 significant bits; the model keeps    *)
(* the rounding rule and shortens the significand, so that values below    *)
(* 2^Precision add exactly (as integers below 2^53 do in the code) and     *)
(* larger ones round (as 0.1 + 0.2 does in the code).                      *)
(***************************************************************************)
EXTENDS Integers, Sequences, FiniteSets, TLC

\* Bounds of the model.
\* Significant bits of a number (53 in the code): sums below 2^Precision are exact.
Precision == 6
\* The candidates are 1..MaxVal and 2^Precision, at most MaxLen of them in a row.
MaxVal == 2
MaxLen == 4
\* The targets are 1..MaxTarget, 2^Precision and 2^Precision + 2.
MaxTarget == 5

\* csvOptimizer.ts:172  row.smallNumbers.length <= 12
MaxSmallNumbers == 12

-----------------------------------------------------------------------------
(* State.                                                                  *)

VARIABLES
  rows,             \* the argument of optimizeAllRows
  results,          \* the results produced so far, in order
  pc,               \* "idle": between rows; "combine": in the for loop
  leftSums,         \* locals of findOptimalSubset
  rightSums,
  idx,              \* the entry of leftSums the for loop is at
  bestSum,
  bestCombination,
  validated,        \* per row, the values validateRow has returned for it
  tpc,              \* per task: "ready", "combine" or "done"
  frames,           \* the locals of the calls of findOptimalSubset in progress
  collected,        \* per row, the result its task has delivered
  store,            \* per limiter and key, the record of its memory storage
  windows,          \* per path class and client, the window it is in
  response,         \* what the middleware did with the latest request
  searchSums,       \* the arguments of a call of findBestSum
  searchTarget,
  searchFound,      \* what the call returned
  loop,             \* the locals of the while loop of findBestSum
  request,          \* what a route handler or the parser is called with
  reply,            \* the response a route handler has sent
  parsed,           \* the rows parseCSV has collected
  scrapers,         \* per site, the state of its scraper's promise
  comparison        \* what getPriceComparison has resolved with

taskVars == <<tpc, frames, collected>>

limiterVars == <<store, windows, response>>

searchVars == <<searchSums, searchTarget, searchFound, loop>>

serviceVars == <<request, reply, parsed, scrapers, comparison>>

vars == <<rows, results, pc, leftSums, rightSums, idx, bestSum, bestCombination,
          validated, taskVars, limiterVars, searchVars, serviceVars>>

locals == <<leftSums, rightSums, idx, bestSum, bestCombination>>

\* No route handler, parser or scraper is at work.
NoService ==
  /\ request = <<>>
  /\ reply = <<>>
  /\ parsed = <<>>
  /\ scrapers = <<>>
  /\ comparison = <<>>

\* The state of the optimizer and of its callers.
optimizerVars == <<rows, results, pc, locals, validated, taskVars>>

-----------------------------------------------------------------------------
(* Number arithmetic.                                                      *)

RECURSIVE Pow2(_)
Pow2(k) == IF k <= 0 THEN 1 ELSE 2 * Pow2(k - 1)

Abs(x) == IF x < 0 THEN -x ELSE x

\* The spacing of the representable values around x >= 0.
RECURSIVE Ulp(_)
Ulp(x) == IF x < Pow2(Precision) THEN 1 ELSE 2 * Ulp(x \div 2)

\* Round to nearest, ties to even.
Rounded[x \in Int] ==
  LET a  == Abs(x)
      q  == Ulp(a)
      m  == a \div q
      lo == m * q
      r  == a - lo
      up == IF 2 * r > q \/ (2 * r = q /\ m % 2 = 1) THEN lo + q ELSE lo
  IN  IF x < 0 THEN -up ELSE up

RoundNearestEven(x) == Rounded[x]

Representable(x) == RoundNearestEven(x) = x

\* a + b and a - b of the code.
NumAdd(a, b) == RoundNearestEven(a + b)

NumSub(a, b) == RoundNearestEven(a - b)

-----------------------------------------------------------------------------
(* The pure helpers of CSVOptimizer.                                       *)

EmptySum == [sum |-> 0, subset |-> <<>>]

\* Mutant: the bit tested is the next higher one.
BitSetShifted(mask, i) == (mask \div Pow2(i + 1)) % 2 = 1

\* mask & (1 << i), for a zero-based position i.
BitSet(mask, i) == (mask \div Pow2(i)) % 2 = 1

\* The values a (sum, subset) pair can take.
SumEntries == [sum : Int, subset : Seq(Int)]

\* sum += numbers[i]; subset.push(numbers[i])
Pushed[acc \in SumEntries, number \in Int] ==
  [sum |-> NumAdd(acc.sum, number), subset |-> Append(acc.subset, number)]

\* The inner loop of generateAllSubsetSums: positions i, i+1, ... of numbers.
RECURSIVE SubsetOfMask(_, _, _, _)
SubsetOfMask(numbers, mask, i, acc) ==
  IF i >= Len(numbers) THEN acc
  ELSE SubsetOfMask(numbers, mask, i + 1,
         IF BitSet(mask, i) THEN Pushed[acc, numbers[i + 1]] ELSE acc)

\* One entry per mask 0 .. 2^n - 1, in increasing mask order.
generateAllSubsetSums(numbers) ==
  [m \in 1..Pow2(Len(numbers)) |-> SubsetOfMask(numbers, m - 1, 0, EmptySum)]

\* rightSums.sort((a, b) => a.sum - b.sum).  Array.prototype.sort is stable:
\* entry i goes after every entry with a smaller sum and after the earlier
\* entries with the same sum.
StablePosition[s \in Seq(SumEntries)] ==
  [i \in 1..Len(s) |->
     Cardinality({j \in 1..Len(s) : s[j].sum < s[i].sum
                                    \/ (s[j].sum = s[i].sum /\ j <= i)})]

Arranged[s \in Seq(SumEntries), pos \in Seq(Nat)] ==
  [p \in 1..Len(s) |-> s[CHOOSE i \in 1..Len(s) : pos[i] = p]]

SortBySum(s) == Arranged[s, StablePosition[s]]

InsertNumber[s \in Seq(Int), e \in Int] ==
  IF s = <<>> THEN <<e>>
  ELSE IF s[Len(s)] <= e THEN Append(s, e)
  ELSE Append(InsertNumber[SubSeq(s, 1, Len(s) - 1), e], s[Len(s)])

Ascending[s \in Seq(Int)] ==
  IF s = <<>> THEN <<>>
  ELSE InsertNumber[Ascending[SubSeq(s, 1, Len(s) - 1)], s[Len(s)]]

\* bestCombination.sort((a, b) => a - b)
\* Mutant: the combination is returned in the order it was built in.
Unsorted(s) == s

\* bestCombination.sort((a, b) => a - b)
SortAscending(s) == Ascending[s]

\* The while loop of findBestSum; left, right, bestIndex are zero-based.
RECURSIVE BinarySearch(_, _, _, _, _)
BinarySearch(sortedSums, target, left, right, bestIndex) ==
  IF left > right THEN bestIndex
  ELSE LET mid == (left + right) \div 2
       IN  IF sortedSums[mid + 1].sum <= target
           THEN BinarySearch(sortedSums, target, mid + 1, right, mid)
           ELSE BinarySearch(sortedSums, target, left, mid - 1, bestIndex)

findBestSum(sortedSums, target) ==
  IF Len(sortedSums) = 0 THEN EmptySum
  ELSE sortedSums[BinarySearch(sortedSums, target, 0, Len(sortedSums) - 1, 0) + 1]

\* result.reduce((sum, num) => sum + num, 0)
Reduced[s \in Seq(Int)] ==
  IF s = <<>> THEN 0
  ELSE NumAdd(Reduced[SubSeq(s, 1, Len(s) - 1)], s[Len(s)])

ReduceSum(s) == Reduced[s]

\* Mutant: the target is never looked at.
CombineOneUnbounded(leftSum, sortedRight, target, best) ==
  LET remaining    == NumSub(target, leftSum.sum)
      bestRightSum == findBestSum(sortedRight, remaining)
      totalSum     == NumAdd(leftSum.sum, bestRightSum.sum)
  IN  IF totalSum > best.bestSum
      THEN [bestSum         |-> totalSum,
            bestCombination |-> leftSum.subset \o bestRightSum.subset]
      ELSE best

\* Mutant: a total equal to the best so far replaces it.
CombineOneLastWins(leftSum, sortedRight, target, best) ==
  IF leftSum.sum > target THEN best
  ELSE LET remaining    == NumSub(target, leftSum.sum)
           bestRightSum == findBestSum(sortedRight, remaining)
           totalSum     == NumAdd(leftSum.sum, bestRightSum.sum)
       IN  IF totalSum <= target /\ totalSum >= best.bestSum
           THEN [bestSum         |-> totalSum,
                 bestCombination |-> leftSum.subset \o bestRightSum.subset]
           ELSE best

\* Mutant: the left subset is spread twice into the combination.
CombineOneLeftTwice(leftSum, sortedRight, target, best) ==
  IF leftSum.sum > target THEN best
  ELSE LET remaining    == NumSub(target, leftSum.sum)
           bestRightSum == findBestSum(sortedRight, remaining)
           totalSum     == NumAdd(leftSum.sum, bestRightSum.sum)
       IN  IF totalSum <= target /\ totalSum > best.bestSum
           THEN [bestSum         |-> totalSum,
                 bestCombination |-> leftSum.subset \o leftSum.subset]
           ELSE best

\* The body of the for loop of findOptimalSubset, for one left subset.
CombineOne(leftSum, sortedRight, target, best) ==
  IF leftSum.sum > target THEN best
  ELSE LET remaining    == NumSub(target, leftSum.sum)
           bestRightSum == findBestSum(sortedRight, remaining)
           totalSum     == NumAdd(leftSum.sum, bestRightSum.sum)
       IN  IF totalSum <= target /\ totalSum > best.bestSum
           THEN [bestSum         |-> totalSum,
                 bestCombination |-> leftSum.subset \o bestRightSum.subset]
           ELSE best

\* Mutant: the single candidate must be strictly below the target.
SingleCandidateStrict(numbers, target) ==
  IF numbers[1] < target THEN numbers ELSE <<>>

\* findOptimalSubset for n = 1.
SingleCandidate(numbers, target) ==
  IF numbers[1] <= target THEN numbers ELSE <<>>

\* Mutant: the length limit is off by one.
validateRowOffByOne(row) ==
  /\ row.bigNumber > 0
  /\ Len(row.smallNumbers) <= MaxSmallNumbers + 1
  /\ \A i \in 1..Len(row.smallNumbers) : row.smallNumbers[i] > 0

validateRow(row) ==
  /\ row.bigNumber > 0
  /\ Len(row.smallNumbers) <= MaxSmallNumbers
  /\ \A i \in 1..Len(row.smallNumbers) : row.smallNumbers[i] > 0

\* The for loop of findOptimalSubset from entry i of leftSums on.  An
\* iteration is over, and its best a number, before the next one starts.
RECURSIVE CombineFrom(_, _, _, _, _)
CombineFrom(lefts, sortedRight, target, i, best) ==
  IF i > Len(lefts) THEN best
  ELSE LET next == CombineOne(lefts[i], sortedRight, target, best)
       IN  CASE next.bestSum \in Int ->
                  CombineFrom(lefts, sortedRight, target, i + 1, next)

\* Mutant: the middle is rounded up.
MidCeil(numbers) == (Len(numbers) + 1) \div 2

\* Math.floor(n / 2)
Mid(numbers) == Len(numbers) \div 2

LeftHalf(numbers) == SubSeq(numbers, 1, Mid(numbers))

RightHalf(numbers) == SubSeq(numbers, Mid(numbers) + 1, Len(numbers))

\* Mutant: the position in leftSums is kept from the previous call.
StaleEntry == idx

\* for (const leftSum of leftSums): the iteration starts at the first entry.
FirstEntry == 1

\* Mutant: the iteration stays at the entry it is at.
SameEntry(i) == i

\* for (const leftSum of leftSums): the iterator moves to the next entry.
NextEntry(i) == i + 1

\* Mutant: the array sorted in place is the row's own.
SortsNumbers == "numbers"

\* return bestCombination.sort(...): Array.prototype.sort sorts in place the
\* array it is called on.  bestCombination is [] or the spread of two subsets,
\* a new array; numbers is row.smallNumbers itself, passed by reference.
SortedInPlace == "bestCombination"

\* The batch after the in-place sort of the array named by SortedInPlace.
AfterSort(batch, k) ==
  IF SortedInPlace = "numbers"
  THEN [batch EXCEPT ![k].smallNumbers = SortAscending(@)]
  ELSE batch

\* let bestSum = 0; let bestCombination = [];
InitialBest == [bestSum |-> 0, bestCombination |-> <<>>]

findOptimalSubset(numbers, target) ==
  IF Len(numbers) = 0 THEN <<>>
  ELSE IF Len(numbers) = 1 THEN SingleCandidate(numbers, target)
  ELSE SortAscending(
         CombineFrom(generateAllSubsetSums(LeftHalf(numbers)),
                     SortBySum(generateAllSubsetSums(RightHalf(numbers))),
                     target, FirstEntry, InitialBest).bestCombination)

\* The object optimizeRow returns for a selection.
RowResult(row, selected) ==
  [selectedNumbers |-> selected, sum |-> ReduceSum(selected), originalRow |-> row]

optimizeRow(row) ==
  IF Len(row.smallNumbers) = 0
  THEN [selectedNumbers |-> <<>>, sum |-> 0, originalRow |-> row]
  ELSE RowResult(row, findOptimalSubset(row.smallNumbers, row.bigNumber))

\* Mutant: the callback's value is put at the front.
MapUnshift(out, r) == <<r>> \o out

\* rows.map: the callback's value for the next row is pushed at the end.
MapPush(out, r) == Append(out, r)

-----------------------------------------------------------------------------
(* The rows the calls are made with.                                       *)

Row(t, s) == [bigNumber |-> t, smallNumbers |-> s]

SeqsUpTo(S, n) == UNION {[1..k -> S] : k \in 0..n}

Big == Pow2(Precision)

Values == {v \in (1..MaxVal) \cup {Big} : Representable(v)}

Targets == {t \in (1..MaxTarget) \cup {Big, Big + 2} : Representable(t)}

\* Rows validateRow accepts.
ValidRows == {Row(t, s) : t \in Targets, s \in SeqsUpTo(Values, MaxLen)}

NonPositive == {-1, 0}

\* Rows with a non-positive target or a non-positive candidate.
MaxBadLen == 2

BadRows ==
  {Row(t, s) : t \in NonPositive, s \in SeqsUpTo(1..MaxVal, MaxBadLen)}
  \cup {r \in {Row(t, s) : t \in 1..MaxVal,
                           s \in SeqsUpTo(NonPositive \cup (1..MaxVal), MaxBadLen)} :
          \E i \in 1..Len(r.smallNumbers) : r.smallNumbers[i] <= 0}

\* Rows with exactly the largest accepted number of candidates, and one more.
LongRows ==
  {Row(MaxTarget, [i \in 1..n |-> 1]) : n \in {MaxSmallNumbers, MaxSmallNumbers + 1}}

\* The rows of the README's example, in its order.
ReadmeBatch == <<Row(10, <<1, 2, 3, 4, 5, 6>>), Row(20, <<5, 10, 15, 8, 12>>)>>

\* The rows of the unit tests and of the README, and a row whose equal values
\* fall in different halves.
ExampleRows ==
  {ReadmeBatch[1], ReadmeBatch[2],
   Row(5, <<10, 15, 20>>), Row(15, <<5, 10, 3, 7>>),
   Row(10, <<3, 3, 4, 4, 5>>), Row(10, <<3, 4, 3, 4, 5>>)}

\* A batch of an unsorted row and a row of one candidate.
MixedBatch == <<Row(15, <<5, 10, 3, 7>>), Row(5, <<3>>)>>

\* A row of large numbers: target - 3 lies halfway between two representable
\* values and rounds, to the even significand, up to the second candidate.
RoundedUpRow == Row(Big + 6, <<3, Big + 4>>)

Rows == ValidRows \cup BadRows \cup LongRows \cup ExampleRows \cup {RoundedUpRow}

\* The rows of the batches of two.
MaxPairLen == 2

PairRows ==
  {Row(t, s) : t \in {1, MaxVal}, s \in SeqsUpTo(1..MaxVal, MaxPairLen)}

Batches ==
  {<<>>} \cup {<<r>> : r \in Rows} \cup {<<r1, r2>> : r1 \in PairRows, r2 \in PairRows}
  \cup {ReadmeBatch, MixedBatch}

-----------------------------------------------------------------------------
(* The calls.                                                              *)

Init ==
  /\ rows \in Batches
  /\ results = <<>>
  /\ pc = "idle"
  /\ leftSums = <<>>
  /\ rightSums = <<>>
  /\ idx = 1
  /\ bestSum = 0
  /\ bestCombination = <<>>
  /\ validated = [k \in 1..Len(rows) |-> {}]
  /\ tpc = <<>>
  /\ frames = <<>>
  /\ collected = <<>>
  /\ store = <<>>
  /\ windows = <<>>
  /\ response = <<>>
  /\ searchSums = <<>>
  /\ searchTarget = 0
  /\ searchFound = <<>>
  /\ loop = <<>>
  /\ NoService

\* The row the map is at.
NextRow == Len(results) + 1

Done == pc = "idle" /\ Len(results) = Len(rows)

\* validateRow(rows[k])
ValidateRow(k) ==
  /\ pc = "idle"
  /\ validated' = [validated EXCEPT ![k] = {validateRow(rows[k])}]
  /\ UNCHANGED <<rows, results, pc, locals, taskVars,
               limiterVars, searchVars, serviceVars>>

\* optimizeRow, smallNumbers.length === 0
OptimizeEmpty ==
  /\ pc = "idle"
  /\ NextRow <= Len(rows)
  /\ Len(rows[NextRow].smallNumbers) = 0
  /\ results' = MapPush(results, optimizeRow(rows[NextRow]))
  /\ UNCHANGED <<rows, pc, locals, validated, taskVars,
               limiterVars, searchVars, serviceVars>>

\* optimizeRow, findOptimalSubset with n === 1
OptimizeSingle ==
  /\ pc = "idle"
  /\ NextRow <= Len(rows)
  /\ Len(rows[NextRow].smallNumbers) = 1
  /\ results' = MapPush(results, optimizeRow(rows[NextRow]))
  /\ UNCHANGED <<rows, pc, locals, validated, taskVars,
               limiterVars, searchVars, serviceVars>>

\* findOptimalSubset, n >= 2: split, enumerate, sort, initialise the best.
BeginCombine ==
  /\ pc = "idle"
  /\ NextRow <= Len(rows)
  /\ Len(rows[NextRow].smallNumbers) >= 2
  /\ leftSums' = generateAllSubsetSums(LeftHalf(rows[NextRow].smallNumbers))
  /\ rightSums' = SortBySum(generateAllSubsetSums(RightHalf(rows[NextRow].smallNumbers)))
  /\ bestSum' = InitialBest.bestSum
  /\ bestCombination' = InitialBest.bestCombination
  /\ idx' = FirstEntry
  /\ pc' = "combine"
  /\ UNCHANGED <<rows, results, validated, taskVars,
               limiterVars, searchVars, serviceVars>>

\* One iteration of the for loop.
CombineStep ==
  /\ pc = "combine"
  /\ idx <= Len(leftSums)
  /\ LET best == CombineOne(leftSums[idx], rightSums, rows[NextRow].bigNumber,
                            [bestSum |-> bestSum, bestCombination |-> bestCombination])
     IN  /\ bestSum' = best.bestSum
         /\ bestCombination' = best.bestCombination
  /\ idx' = NextEntry(idx)
  /\ UNCHANGED <<rows, results, pc, leftSums, rightSums, validated, taskVars,
               limiterVars, searchVars, serviceVars>>

\* The loop is over: sort the best combination, build the result.
ReturnRow ==
  /\ pc = "combine"
  /\ idx > Len(leftSums)
  /\ rows' = AfterSort(rows, NextRow)
  /\ results' = MapPush(results, RowResult(rows'[NextRow], SortAscending(bestCombination)))
  /\ pc' = "idle"
  /\ UNCHANGED <<locals, validated, taskVars,
               limiterVars, searchVars, serviceVars>>

Next ==
  \/ \E k \in 1..Len(rows) : ValidateRow(k)
  \/ OptimizeEmpty
  \/ OptimizeSingle
  \/ BeginCombine
  \/ CombineStep
  \/ ReturnRow

Spec == Init /\ [][Next]_vars

\* A call that has started runs on: the code is synchronous and nothing in it
\* waits.  Whether validateRow is called is the caller's choice.
Run == OptimizeEmpty \/ OptimizeSingle \/ BeginCombine \/ CombineStep \/ ReturnRow

SpecFair == Spec /\ WF_vars(Run)

-----------------------------------------------------------------------------
(* The rows of a batch optimized as concurrent tasks, one call of           *)
(* optimizeRow per task, the results collected by row index.               *)

\* Mutant: the locals are static fields, one copy for all calls.
SharedFrame(k) == 1

\* const leftSums, const rightSums, let bestSum, let bestCombination and the
\* loop's iterator are locals: each call has its own.
Frame(k) == k

NoResult == [sum |-> -1]

NoFrame == [leftSums |-> <<>>, rightSums |-> <<>>, idx |-> 1,
            bestSum |-> 0, bestCombination |-> <<>>]

\* rows.map(row => this.optimizeRow(row)), all at once.
RECURSIVE MapRows(_, _)
MapRows(batch, n) ==
  IF n = 0 THEN <<>>
  ELSE MapPush(MapRows(batch, n - 1), optimizeRow(batch[n]))

optimizeAllRows(batch) == MapRows(batch, Len(batch))

TaskBatches ==
  {<<r1, r2>> : r1 \in PairRows, r2 \in PairRows} \cup {ReadmeBatch, MixedBatch}

InitTasks ==
  /\ rows \in TaskBatches
  /\ results = <<>>
  /\ pc = "idle"
  /\ leftSums = <<>>
  /\ rightSums = <<>>
  /\ idx = 1
  /\ bestSum = 0
  /\ bestCombination = <<>>
  /\ validated = [k \in 1..Len(rows) |-> {}]
  /\ tpc = [k \in 1..Len(rows) |-> "ready"]
  /\ frames = [f \in 1..Len(rows) |-> NoFrame]
  /\ collected = [k \in 1..Len(rows) |-> NoResult]
  /\ store = <<>>
  /\ windows = <<>>
  /\ response = <<>>
  /\ searchSums = <<>>
  /\ searchTarget = 0
  /\ searchFound = <<>>
  /\ loop = <<>>
  /\ NoService

\* optimizeRow for a row of no or one candidate: no loop.
TaskDirect(k) ==
  /\ tpc[k] = "ready"
  /\ Len(rows[k].smallNumbers) <= 1
  /\ collected' = [collected EXCEPT ![k] = optimizeRow(rows[k])]
  /\ tpc' = [tpc EXCEPT ![k] = "done"]
  /\ UNCHANGED <<rows, results, pc, locals, validated, frames,
               limiterVars, searchVars, serviceVars>>

\* findOptimalSubset, n >= 2: split, enumerate, sort, initialise the best.
TaskBegin(k) ==
  /\ tpc[k] = "ready"
  /\ Len(rows[k].smallNumbers) >= 2
  /\ frames' = [frames EXCEPT ![Frame(k)] =
       [leftSums        |-> generateAllSubsetSums(LeftHalf(rows[k].smallNumbers)),
        rightSums       |-> SortBySum(generateAllSubsetSums(RightHalf(rows[k].smallNumbers))),
        idx             |-> FirstEntry,
        bestSum         |-> InitialBest.bestSum,
        bestCombination |-> InitialBest.bestCombination]]
  /\ tpc' = [tpc EXCEPT ![k] = "combine"]
  /\ UNCHANGED <<rows, results, pc, locals, validated, collected,
               limiterVars, searchVars, serviceVars>>

\* One iteration of the for loop of task k.
TaskStep(k) ==
  /\ tpc[k] = "combine"
  /\ LET f == frames[Frame(k)]
     IN  /\ f.idx <= Len(f.leftSums)
         /\ LET best == CombineOne(f.leftSums[f.idx], f.rightSums, rows[k].bigNumber,
                                   [bestSum |-> f.bestSum,
                                    bestCombination |-> f.bestCombination])
            IN  frames' = [frames EXCEPT ![Frame(k)] =
                  [f EXCEPT !.bestSum = best.bestSum,
                            !.bestCombination = best.bestCombination,
                            !.idx = NextEntry(f.idx)]]
  /\ UNCHANGED <<rows, results, pc, locals, validated, tpc, collected,
               limiterVars, searchVars, serviceVars>>

\* The loop of task k is over: its result is delivered at the row's index.
TaskReturn(k) ==
  /\ tpc[k] = "combine"
  /\ LET f == frames[Frame(k)]
     IN  /\ f.idx > Len(f.leftSums)
         /\ rows' = AfterSort(rows, k)
         /\ collected' = [collected EXCEPT ![k] =
                            RowResult(rows'[k], SortAscending(f.bestCombination))]
  /\ tpc' = [tpc EXCEPT ![k] = "done"]
  /\ UNCHANGED <<results, pc, locals, validated, frames,
               limiterVars, searchVars, serviceVars>>

NextTasks ==
  \E k \in 1..Len(rows) :
    \/ TaskDirect(k)
    \/ TaskBegin(k)
    \/ TaskStep(k)
    \/ TaskReturn(k)

SpecTasks == InitTasks /\ [][NextTasks]_vars

-----------------------------------------------------------------------------
(* The rate limiting middleware, app.use(rateLimiter) before every route.  *)
(* Time is counted in seconds.                                             *)

\* rateLimiter.ts:8  points: 50
Points == 50

\* rateLimiter.ts:9  duration: 60
Duration == 60

\* rateLimiter.ts:13  points: 10
PricePoints == 10

\* rateLimiter.ts:14  duration: 60
PriceDuration == 60

\* The clock advances by this many seconds at a time.
TickSeconds == 60

\* Requests a client goes on sending after its limit is reached.
MaxOver == 2

Limiters == {"rateLimiter", "priceLimiter"}

PointsOf(limiter) == IF limiter = "priceLimiter" THEN PricePoints ELSE Points

DurationOf(limiter) == IF limiter = "priceLimiter" THEN PriceDuration ELSE Duration

\* Request paths, character by character.
ApiPrice == <<"/", "a", "p", "i", "/", "p", "r", "i", "c", "e">>

ApiCsv == <<"/", "a", "p", "i", "/", "c", "s", "v">>

Health == <<"/", "h", "e", "a", "l", "t", "h">>

Paths == {ApiPrice, ApiCsv, Health}

Clients == {"a", "b"}

\* Client a uses every path, client b the price API.
Requests ==
  {[ip |-> "a", path |-> p] : p \in Paths} \cup {[ip |-> "b", path |-> ApiPrice]}

\* String.prototype.includes
Includes(path, needle) ==
  \E i \in 1..(Len(path) - Len(needle) + 1) :
    SubSeq(path, i, i + Len(needle) - 1) = needle

\* Mutant: every request is counted under the same key.
SharedKey(req) == "a"

\* req.ip || req.socket.remoteAddress || 'unknown': the address of the client.
ClientIp(req) == req.ip

\* Mutant: every path is counted by the general limiter.
GeneralLimiterOnly(path) == "rateLimiter"

\* req.path.includes('/price') ? priceLimiter : rateLimiter
LimiterFor(path) ==
  IF Includes(path, <<"/", "p", "r", "i", "c", "e">>) THEN "priceLimiter"
  ELSE "rateLimiter"

\* A key without a record in the limiter's memory storage.
NoRecord == [consumedPoints |-> 0, age |-> 0]

\* RateLimiterMemory.consume(key): the storage's incrby.  A key without a
\* (live) record gets one that expires after the duration; a live record is
\* incremented and keeps its expiry.
Incremented(record) ==
  IF record = NoRecord THEN [consumedPoints |-> 1, age |-> 0]
  ELSE [record EXCEPT !.consumedPoints = @ + 1]

\* Math.round(rejRes.msBeforeNext / 1000) || 1
RetryAfter(limiter, record) ==
  IF DurationOf(limiter) - record.age = 0 THEN 1 ELSE DurationOf(limiter) - record.age

\* The window of a client on a class of paths: open from the client's first
\* request to such a path (after its previous window ended) for 60 seconds.
PathClass(path) ==
  IF Includes(path, <<"/", "p", "r", "i", "c", "e">>) THEN "price" ELSE "other"

NoWindow == [age |-> 0, requests |-> 0, passedOn |-> 0]

InitRate ==
  /\ rows = <<>>
  /\ results = <<>>
  /\ pc = "idle"
  /\ leftSums = <<>>
  /\ rightSums = <<>>
  /\ idx = 1
  /\ bestSum = 0
  /\ bestCombination = <<>>
  /\ validated = <<>>
  /\ tpc = <<>>
  /\ frames = <<>>
  /\ collected = <<>>
  /\ store = [l \in Limiters |-> [c \in Clients |-> NoRecord]]
  /\ windows = [cl \in {"price", "other"} |-> [c \in Clients |-> NoWindow]]
  /\ response = [status |-> 0]
  /\ searchSums = <<>>
  /\ searchTarget = 0
  /\ searchFound = <<>>
  /\ loop = <<>>
  /\ NoService

\* rateLimiterMiddleware(req, res, next)
Request(req) ==
  LET limiter  == LimiterFor(req.path)
      clientIp == ClientIp(req)
      record   == Incremented(store[limiter][clientIp])
      rejected == record.consumedPoints > PointsOf(limiter)
      class    == PathClass(req.path)
      window   == windows[class][req.ip]
  IN  /\ store[limiter][clientIp].consumedPoints < PointsOf(limiter) + MaxOver
      /\ store' = [store EXCEPT ![limiter][clientIp] = record]
      /\ response' =
           IF rejected
           THEN [status |-> 429, next |-> FALSE,
                 retryAfter |-> RetryAfter(limiter, record),
                 class |-> class, nth |-> window.requests + 1]
           ELSE [status |-> 200, next |-> TRUE, retryAfter |-> 0,
                 class |-> class, nth |-> window.requests + 1]
      /\ windows' = [windows EXCEPT ![class][req.ip] =
           [age      |-> window.age,
            requests |-> window.requests + 1,
            passedOn |-> window.passedOn + (IF rejected THEN 0 ELSE 1)]]
      /\ UNCHANGED <<optimizerVars, searchVars, serviceVars>>

\* Time passes; the storage drops the records whose duration is over, and
\* the windows that have lasted 60 seconds end.  Ages are in rounded seconds:
\* a record of age 60 is in its last half second.
Tick ==
  /\ store' = [l \in Limiters |-> [c \in Clients |->
       IF store[l][c] = NoRecord \/ store[l][c].age + TickSeconds > DurationOf(l)
       THEN NoRecord
       ELSE [store[l][c] EXCEPT !.age = @ + TickSeconds]]]
  /\ windows' = [cl \in {"price", "other"} |-> [c \in Clients |->
       IF windows[cl][c] = NoWindow \/ windows[cl][c].age + TickSeconds > 60
       THEN NoWindow
       ELSE [windows[cl][c] EXCEPT !.age = @ + TickSeconds]]]
  /\ UNCHANGED <<optimizerVars, response, searchVars, serviceVars>>

NextRate ==
  \/ \E req \in Requests : Request(req)
  \/ Tick

SpecRate == InitRate /\ [][NextRate]_vars

-----------------------------------------------------------------------------
(* findBestSum on its own, called with any sorted list and any ceiling.     *)

\* The lists have up to this many pairs.
MaxPairs == 3

\* The sums of the pairs are -1 .. MaxSearchSum, the ceilings one wider.
MaxSearchSum == 3

\* A pair of the given sum.
Entry(v) == [sum |-> v, subset |-> IF v = 0 THEN <<>> ELSE <<v>>]

\* The lists sorted ascending by sum.
SortedLists ==
  {s \in SeqsUpTo({Entry(v) : v \in -1..MaxSearchSum}, MaxPairs) :
     \A i \in 1..(Len(s) - 1) : s[i].sum <= s[i + 1].sum}

Ceilings == -2..(MaxSearchSum + 1)

NotCalled == [sum |-> -2]

InitSearch ==
  /\ rows = <<>>
  /\ results = <<>>
  /\ pc = "idle"
  /\ leftSums = <<>>
  /\ rightSums = <<>>
  /\ idx = 1
  /\ bestSum = 0
  /\ bestCombination = <<>>
  /\ validated = <<>>
  /\ tpc = <<>>
  /\ frames = <<>>
  /\ collected = <<>>
  /\ store = <<>>
  /\ windows = <<>>
  /\ response = <<>>
  /\ searchSums \in SortedLists
  /\ searchTarget \in Ceilings
  /\ searchFound = NotCalled
  /\ loop = <<>>
  /\ NoService

\* findBestSum(sortedSums, target)
Search ==
  /\ searchFound = NotCalled
  /\ searchFound' = findBestSum(searchSums, searchTarget)
  /\ UNCHANGED <<optimizerVars, limiterVars, searchSums, searchTarget, loop, serviceVars>>

NextSearch == Search

SpecSearch == InitSearch /\ [][NextSearch]_vars

-----------------------------------------------------------------------------
(* The while loop of findBestSum, one iteration per step.                  *)

\* The lists have up to this many pairs, with sums 0 and 1 in any order.
MaxLoopLen == 6

\* No call runs longer than this many iterations in the model.
MaxIterations == 8

LoopLists == SeqsUpTo({Entry(0), Entry(1)}, MaxLoopLen)

LoopCeilings == {-1, 0, 1}

\* The locals before the call; reads are the indices sortedSums was read at.
NotEntered ==
  [at |-> "call", left |-> 0, right |-> -1, bestIndex |-> 0,
   iterations |-> 0, reads |-> {}]

InitLoop ==
  /\ rows = <<>>
  /\ results = <<>>
  /\ pc = "idle"
  /\ leftSums = <<>>
  /\ rightSums = <<>>
  /\ idx = 1
  /\ bestSum = 0
  /\ bestCombination = <<>>
  /\ validated = <<>>
  /\ tpc = <<>>
  /\ frames = <<>>
  /\ collected = <<>>
  /\ store = <<>>
  /\ windows = <<>>
  /\ response = <<>>
  /\ searchSums \in LoopLists
  /\ searchTarget \in LoopCeilings
  /\ searchFound = NotCalled
  /\ loop = NotEntered
  /\ NoService

\* Mutant: the lower end stays at mid.
NarrowedFromMid(l, mid, fits) ==
  IF fits THEN [l EXCEPT !.bestIndex = mid, !.left = mid]
  ELSE [l EXCEPT !.right = mid - 1]

\* bestIndex = mid; left = mid + 1;  or  right = mid - 1;
Narrowed(l, mid, fits) ==
  IF fits THEN [l EXCEPT !.bestIndex = mid, !.left = mid + 1]
  ELSE [l EXCEPT !.right = mid - 1]

\* if (sortedSums.length === 0) return ...; let left = 0; let right = ...
SearchEnter ==
  /\ loop.at = "call"
  /\ IF Len(searchSums) = 0
     THEN /\ searchFound' = EmptySum
          /\ loop' = [loop EXCEPT !.at = "returned"]
     ELSE /\ loop' = [loop EXCEPT !.at = "while", !.left = 0,
                                  !.right = Len(searchSums) - 1, !.bestIndex = 0]
          /\ UNCHANGED searchFound
  /\ UNCHANGED <<optimizerVars, limiterVars, searchSums, searchTarget, serviceVars>>

\* One iteration of while (left <= right).
SearchIterate ==
  /\ loop.at = "while"
  /\ loop.left <= loop.right
  /\ loop.iterations < MaxIterations
  /\ LET mid == (loop.left + loop.right) \div 2
     IN  loop' = [Narrowed(loop, mid,
                           mid + 1 \in DOMAIN searchSums
                             /\ searchSums[mid + 1].sum <= searchTarget)
                    EXCEPT !.iterations = @ + 1, !.reads = @ \cup {mid}]
  /\ UNCHANGED <<optimizerVars, limiterVars, searchSums, searchTarget, searchFound,
                 serviceVars>>

\* return sortedSums[bestIndex]
SearchReturn ==
  /\ loop.at = "while"
  /\ loop.left > loop.right
  /\ searchFound' = searchSums[loop.bestIndex + 1]
  /\ loop' = [loop EXCEPT !.at = "returned", !.reads = @ \cup {loop.bestIndex}]
  /\ UNCHANGED <<optimizerVars, limiterVars, searchSums, searchTarget, serviceVars>>

NextLoop == SearchEnter \/ SearchIterate \/ SearchReturn

\* The call is synchronous: once made, it runs on.
SpecLoop == InitLoop /\ [][NextLoop]_vars /\ WF_vars(NextLoop)

-----------------------------------------------------------------------------
(* POST /api/csv/optimize-data: rows sent as JSON.                         *)

\* The bodies carry up to this many rows.
MaxBodyRows == 3

\* Rows of a JSON body with both fields: valid ones, one of them unsorted,
\* and rows validateRow rejects.
TypedRows ==
  {Row(15, <<5, 10, 3, 7>>), Row(5, <<3>>), Row(2, <<>>),
   Row(0, <<1>>), Row(3, <<1, -1>>), Row(MaxTarget, [i \in 1..(MaxSmallNumbers + 1) |-> 1])}

\* Rows with a field missing: typeof undefined is not 'number', and
\* Array.isArray(undefined) is false.
UntypedRows == {[bigNumber |-> 5], [smallNumbers |-> <<1, 2>>]}

\* req.body: rows is an array, or there is no rows at all.
Bodies ==
  {[rows |-> s] : s \in SeqsUpTo(TypedRows \cup UntypedRows, MaxBodyRows)}
  \cup {[data |-> <<Row(5, <<3>>)>>]}

\* Array.isArray(rows), for const { rows } = req.body
HasRowsArray(body) == "rows" \in DOMAIN body

\* validateRow on a row of a JSON body: the typeof and Array.isArray tests
\* come before the comparisons.
validateJsonRow(row) ==
  /\ "bigNumber" \in DOMAIN row
  /\ "smallNumbers" \in DOMAIN row
  /\ validateRow(row)

\* res.status(400).json({ success: false, error })
BadRequest == [status |-> 400, success |-> FALSE]

\* res.json({ success: true, data: results, message })
Success(data) == [status |-> 200, success |-> TRUE, data |-> data]

\* Mutant: the rows that fail validateRow are left out and the others optimized.
SelectValid(batch) == SelectSeq(batch, validateJsonRow)

\* rows.map((row, index) => { if (!validateRow(row)) throw ...; return row; })
\* The value is the rows; whether the map threw is Throws.
ValidatedRows(batch) == batch

Throws(batch) == \E k \in 1..Len(batch) : ~validateJsonRow(batch[k])

\* The handler of POST /optimize-data.
optimizeData(body) ==
  IF ~HasRowsArray(body) THEN BadRequest
  ELSE LET validatedRows == ValidatedRows(body.rows)
       IN  IF Throws(validatedRows) THEN BadRequest
           ELSE Success(optimizeAllRows(validatedRows))

InitData ==
  /\ rows = <<>>
  /\ results = <<>>
  /\ pc = "idle"
  /\ leftSums = <<>>
  /\ rightSums = <<>>
  /\ idx = 1
  /\ bestSum = 0
  /\ bestCombination = <<>>
  /\ validated = <<>>
  /\ tpc = <<>>
  /\ frames = <<>>
  /\ collected = <<>>
  /\ store = <<>>
  /\ windows = <<>>
  /\ response = <<>>
  /\ searchSums = <<>>
  /\ searchTarget = 0
  /\ searchFound = <<>>
  /\ loop = <<>>
  /\ request \in Bodies
  /\ reply = <<>>
  /\ parsed = <<>>
  /\ scrapers = <<>>
  /\ comparison = <<>>

\* The request is handled and answered.
OptimizeData ==
  /\ reply = <<>>
  /\ reply' = optimizeData(request)
  /\ UNCHANGED <<optimizerVars, limiterVars, searchVars, request, parsed, scrapers,
                 comparison>>

NextData == OptimizeData

SpecData == InitData /\ [][NextData]_vars

-----------------------------------------------------------------------------
(* POST /api/csv/optimize: CSVParser.parseCSV, parseRow and validateCSV.   *)
(* A file is the sequence of records csv-parser emits as 'data' events; a  *)
(* record is its sequence of cells, a cell a sequence of characters.       *)

\* The cells have up to this many characters.
MaxFieldLen == 2

Digits == {"0", "2"}

FieldChars == Digits \cup {"x", " ", "-"}

Fields == SeqsUpTo(FieldChars, MaxFieldLen)

\* Records of 1 + 12 and of 1 + 13 cells.
LongRecords ==
  {[i \in 1..n |-> <<"2">>] : n \in {MaxSmallNumbers + 1, MaxSmallNumbers + 2}}

Records ==
  {<<>>} \cup {<<f>> : f \in Fields} \cup {<<f, g>> : f \in Fields, g \in Fields}
  \cup LongRecords

\* Records for the files of several records: good ones, a blank one, and
\* ones with a cell that is no number, a number followed by a letter, a zero.
SampleRecords ==
  {<<<<"2", "0">>, <<"2">>>>, <<<<"2">>, <<"0", "2">>>>, <<<<" ">>, <<>>>>,
   <<<<"2">>, <<"x">>>>, <<<<"2">>, <<"2", "x">>>>, <<<<"0">>, <<"2">>>>}

Files ==
  {<<>>} \cup {<<r>> : r \in Records}
  \cup {<<r1, r2, r3>> : r1 \in SampleRecords, r2 \in SampleRecords, r3 \in SampleRecords}

\* String.prototype.trim
RECURSIVE Trim(_)
Trim(str) ==
  IF str = <<>> THEN str
  ELSE IF Head(str) = " " THEN Trim(Tail(str))
  ELSE IF str[Len(str)] = " " THEN Trim(SubSeq(str, 1, Len(str) - 1))
  ELSE str

\* The longest prefix of digits.
RECURSIVE DigitPrefix(_)
DigitPrefix(str) ==
  IF str = <<>> \/ Head(str) \notin Digits THEN <<>>
  ELSE <<Head(str)>> \o DigitPrefix(Tail(str))

DigitValue(c) == IF c = "2" THEN 2 ELSE 0

\* The number a sequence of digits denotes.
RECURSIVE Decimal(_)
Decimal(digits) ==
  IF digits = <<>> THEN 0
  ELSE 10 * Decimal(SubSeq(digits, 1, Len(digits) - 1)) + DigitValue(digits[Len(digits)])

\* parseFloat: an optional sign and the longest prefix of digits; what follows
\* the number is ignored; NaN when there is no digit.
parseFloat(str) ==
  LET negative == str # <<>> /\ Head(str) = "-"
      rest     == IF negative THEN Tail(str) ELSE str
      digits   == DigitPrefix(rest)
  IN  IF digits = <<>> THEN [isNaN |-> TRUE, value |-> 0]
      ELSE [isNaN |-> FALSE,
            value |-> IF negative THEN 0 - Decimal(digits) ELSE Decimal(digits)]

\* values.filter(val => val && val.trim() !== '')
NonBlank(str) == str # <<>> /\ Trim(str) # <<>>

\* .map(val => parseFloat(val.trim())) of the cells kept by the filter.
ParsedNumbers(record) ==
  LET kept == SelectSeq(record, NonBlank)
  IN  [i \in 1..Len(kept) |-> parseFloat(Trim(kept[i]))]

\* parseRow: a row, null for a record without values, or an exception.
parseRow(record) ==
  LET numbers == ParsedNumbers(record)
  IN  IF \E i \in 1..Len(numbers) : numbers[i].isNaN \/ numbers[i].value <= 0
      THEN [kind |-> "threw"]
      ELSE IF Len(numbers) < 1 THEN [kind |-> "null"]
      ELSE IF Len(numbers) - 1 > MaxSmallNumbers THEN [kind |-> "threw"]
      ELSE [kind |-> "row",
            row  |-> Row(numbers[1].value,
                         [i \in 1..(Len(numbers) - 1) |-> numbers[i + 1].value])]

\* validateCSV: the errors it collects, the empty file first, then per row.
RowErrors(batch, k) ==
  (IF batch[k].bigNumber <= 0 THEN <<[row |-> k, error |-> "big"]>> ELSE <<>>)
  \o (IF \E i \in 1..Len(batch[k].smallNumbers) : batch[k].smallNumbers[i] <= 0
      THEN <<[row |-> k, error |-> "small"]>> ELSE <<>>)
  \o (IF Len(batch[k].smallNumbers) > MaxSmallNumbers
      THEN <<[row |-> k, error |-> "many"]>> ELSE <<>>)

RECURSIVE ErrorsUpTo(_, _)
ErrorsUpTo(batch, n) ==
  IF n = 0 THEN <<>> ELSE ErrorsUpTo(batch, n - 1) \o RowErrors(batch, n)

validateCSV(batch) ==
  LET errors == (IF Len(batch) = 0 THEN <<[row |-> 0, error |-> "empty"]>> ELSE <<>>)
                \o ErrorsUpTo(batch, Len(batch))
  IN  [isValid |-> Len(errors) = 0, errors |-> errors]

\* No record has been read.
NothingParsed == [at |-> 1, results |-> <<>>, resolved |-> FALSE]

InitCsv ==
  /\ rows = <<>>
  /\ results = <<>>
  /\ pc = "idle"
  /\ leftSums = <<>>
  /\ rightSums = <<>>
  /\ idx = 1
  /\ bestSum = 0
  /\ bestCombination = <<>>
  /\ validated = <<>>
  /\ tpc = <<>>
  /\ frames = <<>>
  /\ collected = <<>>
  /\ store = <<>>
  /\ windows = <<>>
  /\ response = <<>>
  /\ searchSums = <<>>
  /\ searchTarget = 0
  /\ searchFound = <<>>
  /\ loop = <<>>
  /\ request \in {[file |-> f] : f \in Files} \cup {[body |-> <<>>]}
  /\ reply = <<>>
  /\ parsed = NothingParsed
  /\ scrapers = <<>>
  /\ comparison = <<>>

\* if (!req.file): no file was uploaded.
NoFile ==
  /\ reply = <<>>
  /\ "file" \notin DOMAIN request
  /\ reply' = BadRequest
  /\ UNCHANGED <<optimizerVars, limiterVars, searchVars, request, parsed, scrapers,
                 comparison>>

\* .on('data'): the next record is parsed; its row is pushed, null and an
\* exception are passed over.
CsvData ==
  /\ "file" \in DOMAIN request
  /\ ~parsed.resolved
  /\ parsed.at <= Len(request.file)
  /\ LET row == parseRow(request.file[parsed.at])
     IN  parsed' = [parsed EXCEPT
                      !.at = @ + 1,
                      !.results = IF row.kind = "row" THEN Append(@, row.row) ELSE @]
  /\ UNCHANGED <<optimizerVars, limiterVars, searchVars, request, reply, scrapers,
                 comparison>>

\* .on('end'): resolve(results)
CsvEnd ==
  /\ "file" \in DOMAIN request
  /\ ~parsed.resolved
  /\ parsed.at > Len(request.file)
  /\ parsed' = [parsed EXCEPT !.resolved = TRUE]
  /\ UNCHANGED <<optimizerVars, limiterVars, searchVars, request, reply, scrapers,
                 comparison>>

\* The handler after await parseCSV: validateCSV, then optimizeAllRows.
OptimizeCsv ==
  /\ parsed.resolved
  /\ reply = <<>>
  /\ LET validation == validateCSV(parsed.results)
     IN  reply' = IF ~validation.isValid
                  THEN [status |-> 400, success |-> FALSE, errors |-> validation.errors]
                  ELSE Success(optimizeAllRows(parsed.results))
  /\ UNCHANGED <<optimizerVars, limiterVars, searchVars, request, parsed, scrapers,
                 comparison>>

NextCsv == NoFile \/ CsvData \/ CsvEnd \/ OptimizeCsv

SpecCsv == InitCsv /\ [][NextCsv]_vars

-----------------------------------------------------------------------------
(* The price comparison: POST /api/price/compare, GET                      *)
(* /api/price/compare/:itemNumber and PriceScrapingService                 *)
(* .getPriceComparison.  The three scrapers run concurrently and settle in *)
(* any order, each with a price, without one, or with a rejection.         *)

\* The item numbers have up to this many characters.
MaxItemLen == 2

\* [A-Za-z0-9\-_], one character of each kind.
ItemChars == {"A", "7", "-", "_"}

\* A blank and a character the pattern has not.
OtherChars == {" ", "!"}

ItemNumbers == SeqsUpTo(ItemChars \cup OtherChars, MaxItemLen)

\* The order of the array given to Promise.allSettled.
Sites == <<"Newegg", "Amazon", "Best Buy">>

SiteNames == {Sites[i] : i \in 1..Len(Sites)}

\* price: null; the prices found are numbers >= 0.
NullPrice == 0 - 1

FoundPrice == 19

\* What a scraper's promise settles with.
Outcomes ==
  {[status |-> "fulfilled", price |-> p] : p \in {NullPrice, FoundPrice}}
  \cup {[status |-> "rejected", price |-> NullPrice]}

Pending == [status |-> "pending", price |-> NullPrice]

\* The requests: a body with itemNumber a string, another value or absent;
\* a path parameter, which is a string of at least one character.
PriceRequests ==
  {[method |-> "POST", type |-> "string", itemNumber |-> s] : s \in ItemNumbers}
  \cup {[method |-> "POST", type |-> t, itemNumber |-> <<>>] : t \in {"undefined", "number"}}
  \cup {[method |-> "GET", type |-> "string", itemNumber |-> s] : s \in ItemNumbers \ {<<>>}}

\* !itemNumber || typeof itemNumber !== 'string' || itemNumber.trim().length === 0
\* (the path parameter of the GET route is a string)
Required(req) ==
  /\ req.type = "string"
  /\ req.itemNumber # <<>>
  /\ Len(Trim(req.itemNumber)) # 0

\* Mutant: every item number has the format.
AnyFormat(str) == TRUE

\* /^[A-Za-z0-9\-_]+$/.test(cleanItemNumber)
ValidFormat(str) ==
  /\ Len(str) >= 1
  /\ \A i \in 1..Len(str) : str[i] \in ItemChars

\* The object a scraper returns: available: price !== null.
FoundEntry(site, price) ==
  [site |-> site, price |-> price, available |-> price # NullPrice]

\* createErrorPrice(site, error), and the literals of the second version.
createErrorPrice(site) ==
  [site |-> site, price |-> NullPrice, available |-> FALSE]

\* if (result.status === 'fulfilled') prices.push(result.value) else the error price
EntryOf(site, outcome) ==
  IF outcome.status = "fulfilled" THEN FoundEntry(site, outcome.price)
  ELSE createErrorPrice(site)

\* Mutant: the entries are pushed as the scrapers settle.
PricesAsSettled(sc) ==
  [i \in 1..Len(Sites) |-> EntryOf(sc.settled[i], sc.state[sc.settled[i]])]

\* The three pushes, in the order of the destructured array.
PricesInOrder(sc) ==
  [i \in 1..Len(Sites) |-> EntryOf(Sites[i], sc.state[Sites[i]])]

\* prices.find(p => p.available) ? 'Product Found' : 'Product Not Found'
getProductName(prices) ==
  IF \E i \in 1..Len(prices) : prices[i].available
  THEN "Product Found" ELSE "Product Not Found"

\* prices.filter(p => p.available)
SuccessfulPrices(prices) == SelectSeq(prices, LAMBDA p : p.available)

InitPrice ==
  /\ rows = <<>>
  /\ results = <<>>
  /\ pc = "idle"
  /\ leftSums = <<>>
  /\ rightSums = <<>>
  /\ idx = 1
  /\ bestSum = 0
  /\ bestCombination = <<>>
  /\ validated = <<>>
  /\ tpc = <<>>
  /\ frames = <<>>
  /\ collected = <<>>
  /\ store = <<>>
  /\ windows = <<>>
  /\ response = <<>>
  /\ searchSums = <<>>
  /\ searchTarget = 0
  /\ searchFound = <<>>
  /\ loop = <<>>
  /\ request \in PriceRequests
  /\ reply = <<>>
  /\ parsed = <<>>
  /\ scrapers = <<>>
  /\ comparison = <<>>

\* The handler up to the await: the two 400 answers, or the call of
\* getPriceComparison, which starts the three scrapers.
Compare ==
  /\ reply = <<>>
  /\ scrapers = <<>>
  /\ IF Required(request) /\ ValidFormat(Trim(request.itemNumber))
     THEN /\ scrapers' = [itemNumber |-> Trim(request.itemNumber),
                          state      |-> [s \in SiteNames |-> Pending],
                          settled    |-> <<>>]
          /\ UNCHANGED reply
     ELSE /\ reply' = BadRequest
          /\ UNCHANGED scrapers
  /\ UNCHANGED <<optimizerVars, limiterVars, searchVars, request, parsed, comparison>>

\* A scraper's promise settles.
Settle(site, outcome) ==
  /\ scrapers # <<>>
  /\ scrapers.state[site] = Pending
  /\ scrapers' = [scrapers EXCEPT !.state[site] = outcome,
                                  !.settled = Append(@, site)]
  /\ UNCHANGED <<optimizerVars, limiterVars, searchVars, request, reply, parsed,
                 comparison>>

\* getPriceComparison after await Promise.allSettled: all three have settled.
Resolve ==
  /\ scrapers # <<>>
  /\ comparison = <<>>
  /\ \A s \in SiteNames : scrapers.state[s] # Pending
  /\ LET prices == PricesInOrder(scrapers)
     IN  comparison' = [itemNumber  |-> scrapers.itemNumber,
                        productName |-> getProductName(prices),
                        prices      |-> prices]
  /\ UNCHANGED <<optimizerVars, limiterVars, searchVars, request, reply, parsed,
                 scrapers>>

\* The handler after the await: 404 or 200.
Respond ==
  /\ comparison # <<>>
  /\ reply = <<>>
  /\ reply' = IF Len(SuccessfulPrices(comparison.prices)) = 0
              THEN [status |-> 404, success |-> FALSE, data |-> comparison]
              ELSE Success(comparison)
  /\ UNCHANGED <<optimizerVars, limiterVars, searchVars, request, parsed, scrapers,
                 comparison>>

NextPrice ==
  \/ Compare
  \/ \E site \in SiteNames, outcome \in Outcomes : Settle(site, outcome)
  \/ Resolve
  \/ Respond

SpecPrice == InitPrice /\ [][NextPrice]_vars

-----------------------------------------------------------------------------
(* What the claims are stated with.                                        *)

\* The exact (real-number) sum of the candidates at the positions S.
RECURSIVE PositionSum(_, _)
PositionSum(numbers, S) ==
  IF S = {} THEN 0
  ELSE LET i == CHOOSE j \in S : TRUE
       IN  numbers[i] + PositionSum(numbers, S \ {i})

\* The sums of the 2^n index-subsets of the candidates that are <= target.
FeasibleSums(row) ==
  {t \in {PositionSum(row.smallNumbers, S) : S \in SUBSET (1..Len(row.smallNumbers))} :
     t <= row.bigNumber}

Count(s, v) == Cardinality({i \in 1..Len(s) : s[i] = v})

Returned == 1..Len(results)

\* target > 0, at most 12 candidates, every candidate > 0.
ValidRow(row) ==
  ~ \/ row.bigNumber <= 0
    \/ Len(row.smallNumbers) >= MaxSmallNumbers + 1
    \/ \E i \in 1..Len(row.smallNumbers) : row.smallNumbers[i] <= 0

\* The row of the latest result went through the combination loop, and the
\* loop's locals are those it ended with.
AfterCombine ==
  /\ pc = "idle"
  /\ Len(results) >= 1
  /\ Len(rows[Len(results)].smallNumbers) >= 2

-----------------------------------------------------------------------------
(* The claims.                                                             *)

\* C1: for every valid row, the sum optimizeRow returns is the largest of the
\* sums of the index-subsets of the candidates that do not exceed the target:
\* it is such a sum and no such sum lies in (result.sum, target].
C1_Optimality ==
  \A k \in Returned :
    ValidRow(rows[k]) =>
      /\ results[k].sum \in FeasibleSums(rows[k])
      /\ \A t \in FeasibleSums(rows[k]) : t <= results[k].sum

\* C2: for every valid row, the sum optimizeRow returns does not exceed the
\* row's target.
C2_SumWithinTarget ==
  \A k \in Returned :
    ValidRow(rows[k]) => results[k].sum <= rows[k].bigNumber

\* C3: for every valid row, the selected numbers are a sub-multiset of the
\* candidates: a value occurs in the selection at most as often as in the row.
C3_SubMultiset ==
  \A k \in Returned :
    ValidRow(rows[k]) =>
      \A i \in 1..Len(results[k].selectedNumbers) :
        LET v == results[k].selectedNumbers[i]
        IN  Count(results[k].selectedNumbers, v) <= Count(rows[k].smallNumbers, v)

\* C3 witness: a valid row is answered with a selection that uses one value twice.
C3_Witness ==
  \E k \in Returned :
    /\ ValidRow(rows[k])
    /\ \E i \in 1..Len(results[k].selectedNumbers) :
         Count(results[k].selectedNumbers, results[k].selectedNumbers[i]) = 2

\* C4: the sum of a result is the sum of its selected numbers, and it is the
\* best total the combination loop tracked (bestSum at the end of the loop).
C4_SumIsBestTotal ==
  /\ \A k \in Returned : results[k].sum = ReduceSum(results[k].selectedNumbers)
  /\ AfterCombine => results[Len(results)].sum = bestSum

\* C5: optimizeRow returns no result for a row with more than 12 candidates.
C5_NoResultForLongRow ==
  \A k \in Returned : Len(rows[k].smallNumbers) <= MaxSmallNumbers

\* C6: optimizeRow returns no result for a row with a non-positive target or a
\* non-positive candidate.
C6_NoResultForNonPositive ==
  \A k \in Returned :
    /\ rows[k].bigNumber > 0
    /\ \A i \in 1..Len(rows[k].smallNumbers) : rows[k].smallNumbers[i] > 0

\* C7: optimizeAllRows answers row i at position i: the results never outnumber
\* the rows, result i refers to row i and is optimizeRow of row i; so the
\* sequence returned when the map has passed the last row has the rows' length.
C7_Pointwise ==
  /\ Len(results) <= Len(rows)
  /\ \A i \in Returned :
       /\ results[i].originalRow = rows[i]
       /\ results[i] = optimizeRow(rows[i])

\* C7 witness: a batch of two different rows is answered, with different results.
C7_Witness ==
  /\ Done
  /\ Len(rows) = 2
  /\ rows[1] # rows[2]
  /\ results[1].selectedNumbers # results[2].selectedNumbers

\* C8: two calls of optimizeRow on rows with the same target and the same
\* candidates return the same sum and the same selection.
C8_Determinism ==
  \A i \in Returned : \A j \in Returned :
    (rows[i].bigNumber = rows[j].bigNumber /\ rows[i].smallNumbers = rows[j].smallNumbers)
      => /\ results[i].sum = results[j].sum
         /\ results[i].selectedNumbers = results[j].selectedNumbers

\* C8 witness: the same row was optimized twice, through the combination loop,
\* and something was selected.
C8_Witness ==
  /\ Done
  /\ Len(rows) = 2
  /\ rows[1] = rows[2]
  /\ Len(rows[1].smallNumbers) >= 2
  /\ results[2].selectedNumbers # <<>>

\* C9: validateRow returns true exactly when the target is > 0, there are at
\* most 12 candidates and every candidate is > 0.
C9_ValidateRow ==
  \A k \in 1..Len(rows) : validated[k] \subseteq {ValidRow(rows[k])}

\* C9 witness: a row of 13 positive candidates with a positive target was
\* validated, and rejected.
C9_Witness ==
  \E k \in 1..Len(rows) :
    /\ validated[k] = {FALSE}
    /\ rows[k].bigNumber > 0
    /\ Len(rows[k].smallNumbers) = MaxSmallNumbers + 1
    /\ \A i \in 1..Len(rows[k].smallNumbers) : rows[k].smallNumbers[i] > 0

\* C10: for no candidate the result is sum 0 with the empty selection; for one
\* candidate c it is [c] with sum c if c <= target, and the empty selection
\* with sum 0 otherwise.
C10_EdgeCases ==
  \A k \in Returned :
    LET c == rows[k].smallNumbers
        r == results[k]
    IN  /\ Len(c) = 0 => (r.sum = 0 /\ r.selectedNumbers = <<>>)
        /\ (Len(c) = 1 /\ c[1] <= rows[k].bigNumber) =>
             (r.sum = c[1] /\ r.selectedNumbers = <<c[1]>>)
        /\ (Len(c) = 1 /\ c[1] > rows[k].bigNumber) =>
             (r.sum = 0 /\ r.selectedNumbers = <<>>)

\* C10 witness: a single candidate equal to the target was taken.
C10_Witness ==
  \E k \in Returned :
    /\ Len(rows[k].smallNumbers) = 1
    /\ rows[k].smallNumbers[1] = rows[k].bigNumber
    /\ results[k].selectedNumbers = rows[k].smallNumbers

\* C11: for every valid row with two or more candidates that are all greater
\* than the target, the result is sum 0 with the empty selection.
C11_NothingFits ==
  \A k \in Returned :
    LET c == rows[k].smallNumbers
    IN  (/\ ValidRow(rows[k])
         /\ Len(c) >= 2
         /\ \A i \in 1..Len(c) : c[i] > rows[k].bigNumber)
        => (results[k].sum = 0 /\ results[k].selectedNumbers = <<>>)

\* C11 witness: the test's row 5,[10,15,20] was answered with nothing.
C11_Witness ==
  \E k \in Returned :
    /\ rows[k] = Row(5, <<10, 15, 20>>)
    /\ results[k].selectedNumbers = <<>>

\* A value occurs at two positions of the row.
HasDuplicate(row) ==
  \E i \in 1..Len(row.smallNumbers) : \E j \in 1..Len(row.smallNumbers) :
    i # j /\ row.smallNumbers[i] = row.smallNumbers[j]

\* C12: for every valid row in which a value occurs several times, every
\* occurrence is usable: the sum returned is the largest sum <= target over
\* the index-subsets, also when that optimum takes the value more than once
\* and from both halves (10 for 10,[3,3,4,4,5]).
C12_DuplicatesUsable ==
  \A k \in Returned :
    (ValidRow(rows[k]) /\ HasDuplicate(rows[k])) =>
      /\ results[k].sum \in FeasibleSums(rows[k])
      /\ \A t \in FeasibleSums(rows[k]) : t <= results[k].sum

\* C14: for the README's example input optimizeAllRows returns [1,3,6] with
\* sum 10 for the first row and [8,12] with sum 20 for the second.
C14_ReadmeExample ==
  (rows = ReadmeBatch /\ Done) =>
    /\ results[1].selectedNumbers = <<1, 3, 6>>
    /\ results[1].sum = 10
    /\ results[2].selectedNumbers = <<8, 12>>
    /\ results[2].sum = 20

\* C13: optimizeRow is total on valid rows: when every row of the batch has a
\* positive target and at most 12 positive candidates, every call's loops end
\* and every row gets its result (the code has no other outcome than a result).
C13_Total ==
  (\A k \in 1..Len(rows) : ValidRow(rows[k])) => <>Done

\* C13 witness: a valid row of 12 candidates went through the combination
\* loop and was answered.
C13_Witness ==
  /\ Done
  /\ \E k \in Returned :
       /\ ValidRow(rows[k])
       /\ Len(rows[k].smallNumbers) = MaxSmallNumbers
       /\ idx = Len(leftSums) + 1

\* C16: no call changes the input rows: the batch (every row's target and
\* candidate sequence, values and order) is the same after every step of
\* validateRow, optimizeRow and optimizeAllRows.
C16_RowsUnchanged == [][rows' = rows]_vars

\* C16 witness: an unsorted row was answered with a selection in another
\* order than the row's, and a one-candidate row was answered with its
\* candidate, both rows being what they were.
C16_Witness ==
  /\ Done
  /\ rows = MixedBatch
  /\ validated[1] = {TRUE}
  /\ results[1].selectedNumbers = <<3, 5, 7>>
  /\ results[2].selectedNumbers = <<3>>

\* C15: rows are optimized independently: however the steps of the per-row
\* tasks interleave, the result a task delivers is the result of optimizeRow
\* on its row alone, and once all tasks are done the results collected in
\* input order are the output of optimizeAllRows.
C15_Independent ==
  /\ \A k \in 1..Len(rows) :
       tpc[k] = "done" => collected[k] = optimizeRow(rows[k])
  /\ (\A k \in 1..Len(rows) : tpc[k] = "done") => collected = optimizeAllRows(rows)

\* C15 witness: the second task of the README's batch finished while the
\* first was in the middle of its loop.
C15_Witness ==
  /\ rows = ReadmeBatch
  /\ tpc = <<"combine", "done">>
  /\ frames[1].idx = 3
  /\ collected[2].selectedNumbers = <<8, 12>>

\* C17: from one client, in one 60-second window (opened by the client's
\* first request to the class of paths), at most 10 requests to paths
\* containing '/price' and at most 50 to the other paths are passed on, and a
\* request is answered 429 and not passed on exactly when it comes after
\* that many requests of its window; the requests up to the limit are all
\* passed on.
C17_RateLimit ==
  /\ \A c \in Clients :
       /\ windows["price"][c].passedOn <= 10
       /\ windows["other"][c].passedOn <= 50
       /\ windows["price"][c].requests <= 10
          => windows["price"][c].passedOn = windows["price"][c].requests
       /\ windows["other"][c].requests <= 50
          => windows["other"][c].passedOn = windows["other"][c].requests
  /\ response.status # 0 =>
       /\ response.next = (response.status # 429)
       /\ (response.status = 429)
            = (response.nth > IF response.class = "price" THEN 10 ELSE 50)

\* C17 witness: client a's 11th request to the price API in a window was
\* answered 429 while its 50 requests to other paths were all passed on.
C17_Witness ==
  /\ response.status = 429
  /\ response.class = "price"
  /\ response.nth = 11
  /\ windows["price"]["a"].requests = 11
  /\ windows["other"]["a"].passedOn = 50
  /\ windows["price"]["a"].age = TickSeconds

\* C18: findBestSum on a list sorted ascending by sum returns a pair of the
\* list with the largest sum <= the ceiling; when no pair of the list has a
\* sum <= the ceiling, or the list is empty, it returns the pair of sum 0
\* with the empty subset.
C18_FindBestSum ==
  searchFound # NotCalled =>
    LET fits == {i \in 1..Len(searchSums) : searchSums[i].sum <= searchTarget}
    IN  IF fits = {}
        THEN searchFound = EmptySum
        ELSE /\ \E i \in fits : searchFound = searchSums[i]
             /\ \A i \in fits : searchSums[i].sum <= searchFound.sum

\* The positions (from 1) of k candidates whose bit is set in the mask.
MaskPositions(k, mask) == {i \in 1..k : (mask \div Pow2(i - 1)) % 2 = 1}

\* The candidates at the positions P among the first k, in the order of
\* their positions.
RECURSIVE Picked(_, _, _)
Picked(numbers, P, k) ==
  IF k = 0 THEN <<>>
  ELSE IF k \in P THEN Append(Picked(numbers, P, k - 1), numbers[k])
  ELSE Picked(numbers, P, k - 1)

\* The entry of the inclusion mask over the given candidates: its members in
\* position order, and their sum added up in that order.
MaskEntry(numbers, mask) ==
  LET members == Picked(numbers, MaskPositions(Len(numbers), mask), Len(numbers))
  IN  [sum |-> ReduceSum(members), subset |-> members]

\* C19: generateAllSubsetSums on k values returns exactly 2^k entries, the
\* entry of mask m at place m (from 0), the first being the empty selection
\* with sum 0; each entry's sum is the sum of its members (added in position
\* order), and equal values at different positions have entries of their own.
\* Checked when the loop is entered, on the enumeration of the left half (as
\* returned) and of the right half (as sorted by line 79: the sorted list is
\* the sort of exactly these entries, none dropped or merged).
C19_AllSubsets ==
  (pc = "combine" /\ idx = 1) =>
    LET numbers == rows[NextRow].smallNumbers
        left    == LeftHalf(numbers)
        right   == RightHalf(numbers)
        entries == [m \in 1..Pow2(Len(right)) |-> MaskEntry(right, m - 1)]
    IN  /\ Len(leftSums) = Pow2(Len(left))
        /\ leftSums[1] = [sum |-> 0, subset |-> <<>>]
        /\ \A m \in 1..Len(leftSums) : leftSums[m] = MaskEntry(left, m - 1)
        /\ Len(rightSums) = Pow2(Len(right))
        /\ rightSums = SortBySum(entries)

\* C19 witness: the two equal candidates of the left half of 10,[3,3,4,4,5]
\* have an entry each, and one for both.
C19_Witness ==
  /\ pc = "combine"
  /\ rows[NextRow] = Row(10, <<3, 3, 4, 4, 5>>)
  /\ leftSums[2] = [sum |-> 3, subset |-> <<3>>]
  /\ leftSums[3] = [sum |-> 3, subset |-> <<3>>]
  /\ leftSums[4] = [sum |-> 6, subset |-> <<3, 3>>]

\* The best right subset for entry i of leftSums, and the total with it.
RightFor(i) ==
  findBestSum(rightSums, NumSub(rows[NextRow].bigNumber, leftSums[i].sum))

\* The total of every entry of leftSums.
Totals == [i \in 1..Len(leftSums) |-> NumAdd(leftSums[i].sum, RightFor(i).sum)]

\* The entries of leftSums whose total the loop accepts as a candidate.
Within(total) ==
  {i \in 1..Len(leftSums) : /\ leftSums[i].sum <= rows[NextRow].bigNumber
                            /\ total[i] <= rows[NextRow].bigNumber
                            /\ total[i] > 0}

\* The entries whose total is the largest of them.
Optimal(total, within) == {i \in within : \A j \in within : total[j] <= total[i]}

C21_BestSoFar ==
  (pc = "combine" /\ ValidRow(rows[NextRow])) =>
    /\ bestSum = ReduceSum(bestCombination)
    /\ bestSum <= rows[NextRow].bigNumber
    /\ idx = FirstEntry => (bestSum = 0 /\ bestCombination = <<>>)

\* C22: for every row with two or more candidates, the numbers optimizeRow
\* returns are in non-decreasing order, whatever the order of the candidates.
C22_SelectionAscending ==
  \A k \in Returned :
    Len(rows[k].smallNumbers) >= 2 =>
      \A i \in 1..(Len(results[k].selectedNumbers) - 1) :
        results[k].selectedNumbers[i] <= results[k].selectedNumbers[i + 1]

\* C22 witness: the loop ended with the combination [5, 3, 7], the left subset
\* before the right one, and the row's result holds it as [3, 5, 7].
C22_Witness ==
  /\ AfterCombine
  /\ bestCombination = <<5, 3, 7>>
  /\ results[Len(results)].selectedNumbers = <<3, 5, 7>>

\* The subsets of the entries of a list of subset sums that hold k numbers.
SubsetsOfSize(sums, k) ==
  {sums[i].subset : i \in {j \in 1..Len(sums) : Len(sums[j].subset) = k}}

\* C23: for n >= 2 candidates findOptimalSubset enumerates the subsets of the
\* first floor(n/2) candidates on the left and of the remaining
\* n - floor(n/2) candidates on the right: the two halves are contiguous and
\* disjoint, together they are the candidates position by position, and
\* where the split falls depends on n alone, not on the values or the target.
C23_Split ==
  pc = "combine" =>
    LET numbers == rows[NextRow].smallNumbers
        n       == Len(numbers)
        half    == n \div 2
    IN  /\ Len(leftSums) = Pow2(half)
        /\ Len(rightSums) = Pow2(n - half)
        /\ SubsetsOfSize(leftSums, half) = {SubSeq(numbers, 1, half)}
        /\ SubsetsOfSize(rightSums, n - half) = {SubSeq(numbers, half + 1, n)}
        /\ \A l \in SubsetsOfSize(leftSums, half) :
             \A r \in SubsetsOfSize(rightSums, n - half) : l \o r = numbers

\* C23 witness: the five candidates of the README's second row are split into
\* the first two and the last three.
C23_Witness ==
  /\ pc = "combine"
  /\ rows[NextRow] = ReadmeBatch[2]
  /\ Len(leftSums) = 4
  /\ Len(rightSums) = 8
  /\ leftSums[4].subset = <<5, 10>>
  /\ \E i \in 1..8 : rightSums[i].subset = <<15, 8, 12>>

\* C25: in the combination loop of a valid row, every left subset that is not
\* skipped queries findBestSum with a ceiling >= 0 on a sorted list whose
\* first entry is the empty subset with sum 0, the right sum found is at most
\* the ceiling, and the total passes the guard totalSum <= target.
C25_GuardNeverFalse ==
  (pc = "combine" /\ idx = FirstEntry /\ ValidRow(rows[NextRow])) =>
    /\ rightSums[1] = EmptySum
    /\ \A i \in 1..(Len(rightSums) - 1) : rightSums[i].sum <= rightSums[i + 1].sum
    /\ \A i \in 1..Len(leftSums) :
         leftSums[i].sum <= rows[NextRow].bigNumber =>
           LET remaining == NumSub(rows[NextRow].bigNumber, leftSums[i].sum)
           IN  /\ remaining >= 0
               /\ RightFor(i).sum <= remaining
               /\ NumAdd(leftSums[i].sum, RightFor(i).sum) <= rows[NextRow].bigNumber

RECURSIVE FloorLog2(_)
FloorLog2(m) == IF m <= 1 THEN 0 ELSE 1 + FloorLog2(m \div 2)

\* C24: the loop of findBestSum terminates on every list: every iteration
\* makes the interval [left, right] strictly shorter, a list of m entries
\* takes at most floor(log2(m)) + 1 iterations, every index read is an index
\* of the list, and the call returns.
C24_BinarySearchTerminates ==
  /\ [](/\ Len(searchSums) >= 1 =>
             loop.iterations <= FloorLog2(Len(searchSums)) + 1
        /\ loop.reads \subseteq 0..(Len(searchSums) - 1))
  /\ [][loop'.iterations = loop.iterations + 1 =>
          /\ loop'.right - loop'.left < loop.right - loop.left
          /\ loop'.left >= loop.left
          /\ loop'.right <= loop.right]_vars
  /\ <>(loop.at = "returned")

\* C24 witness: a call on four entries has returned after three iterations,
\* the most the bound allows, having read three entries of the list.
C24_Witness ==
  /\ loop.at = "returned"
  /\ Len(searchSums) = 4
  /\ loop.iterations = 3
  /\ loop.reads = {1, 2, 3}

\* A row of a JSON body that has a positive number as bigNumber and an array
\* of at most 12 positive numbers as smallNumbers.
WellFormed(row) ==
  /\ DOMAIN row = {"bigNumber", "smallNumbers"}
  /\ ValidRow(row)

\* C26: POST /optimize-data is all-or-nothing: when rows is not an array, or
\* one row fails validateRow, the response is 400 with success false and
\* carries no result of any row; only when every row is valid is the
\* response success true, with the result of every row in input order.
C26_AllOrNothing ==
  reply # <<>> =>
    IF "rows" \in DOMAIN request
         /\ \A k \in 1..Len(request.rows) : WellFormed(request.rows[k])
    THEN /\ reply.status = 200
         /\ reply.success
         /\ Len(reply.data) = Len(request.rows)
         /\ \A k \in 1..Len(request.rows) :
              /\ reply.data[k].originalRow = request.rows[k]
              /\ reply.data[k] = optimizeRow(request.rows[k])
    ELSE /\ reply.status = 400
         /\ ~reply.success
         /\ "data" \notin DOMAIN reply

\* C26 witness: a body of two valid rows with an invalid row between them
\* was refused as a whole.
C26_Witness ==
  /\ request = [rows |-> <<Row(15, <<5, 10, 3, 7>>), Row(0, <<1>>), Row(5, <<3>>)>>]
  /\ reply = BadRequest

\* A cell that is a number: an optional sign and digits, nothing else.
IsNumeric(str) ==
  LET rest == IF str # <<>> /\ Head(str) = "-" THEN Tail(str) ELSE str
  IN  rest # <<>> /\ \A i \in 1..Len(rest) : rest[i] \in Digits

\* The value of a numeric cell.
NumericValue(str) ==
  IF Head(str) = "-" THEN 0 - Decimal(Tail(str)) ELSE Decimal(str)

\* The values of a record: its cells that are not blank, trimmed.
CellValues(record) ==
  LET kept == SelectSeq(record, LAMBDA c : \E i \in 1..Len(c) : c[i] # " ")
  IN  [i \in 1..Len(kept) |-> Trim(kept[i])]

\* The records parseCSV is to keep: not empty, every value a positive
\* number, at most 12 small numbers.
Kept(record) ==
  LET values == CellValues(record)
  IN  /\ Len(values) >= 1
      /\ Len(values) - 1 <= MaxSmallNumbers
      /\ \A i \in 1..Len(values) : IsNumeric(values[i]) /\ NumericValue(values[i]) > 0

\* The row of a kept record.
RowOf(record) ==
  LET values == CellValues(record)
  IN  Row(NumericValue(values[1]),
          [i \in 1..(Len(values) - 1) |-> NumericValue(values[i + 1])])

RECURSIVE KeptRows(_)
KeptRows(file) ==
  IF file = <<>> THEN <<>>
  ELSE (IF Kept(Head(file)) THEN <<RowOf(Head(file))>> ELSE <<>>) \o KeptRows(Tail(file))

\* C27: parseCSV drops the records with a value that is not a number or not
\* positive, or with more than 12 small numbers, and keeps every other
\* non-empty record in file order; every row it produces satisfies
\* validateRow; validateCSV reports an error on its output only when no row
\* was produced.
C27_ParsedRowsValid ==
  ("file" \in DOMAIN request /\ parsed.resolved) =>
    /\ parsed.results = KeptRows(request.file)
    /\ \A k \in 1..Len(parsed.results) : validateRow(parsed.results[k])
    /\ validateCSV(parsed.results).isValid <=> Len(parsed.results) > 0

SomeAvailable ==
  \E i \in 1..Len(comparison.prices) : comparison.prices[i].available

\* The answers after the comparison: 404 with success false exactly when no
\* entry is available, 200 with success true exactly when one is.
AnsweredFromComparison ==
  /\ comparison # <<>>
  /\ (reply.status = 404 /\ ~reply.success) <=> ~SomeAvailable
  /\ (reply.status = 200 /\ reply.success) <=> SomeAvailable

\* The answer 400 with no scraper started.
RefusedBeforeScraping == reply.status = 400 /\ scrapers = <<>>

\* C29 as stated: the routes answer 400 without invoking a scraper when the
\* item number is missing (no string was given), blank or contains a
\* character outside [A-Za-z0-9_-], and otherwise answer from the comparison.
C29_AsStated ==
  reply # <<>> =>
    IF \/ request.type # "string"
       \/ (request.type = "string" /\ Trim(request.itemNumber) = <<>>)
       \/ (request.type = "string"
             /\ \E i \in 1..Len(request.itemNumber) : request.itemNumber[i] \notin ItemChars)
    THEN RefusedBeforeScraping
    ELSE AnsweredFromComparison

\* C29: the routes answer 400 without invoking a scraper when the item number
\* is not a string, or is empty after trimming, or has, after trimming, a
\* character outside [A-Za-z0-9_-]; otherwise they answer 404 with success
\* false exactly when no returned entry is available and 200 with success
\* true exactly when at least one entry is available.
C29_Routes ==
  reply # <<>> =>
    IF \/ request.type # "string"
       \/ Trim(request.itemNumber) = <<>>
       \/ \E i \in 1..Len(Trim(request.itemNumber)) :
            Trim(request.itemNumber)[i] \notin ItemChars
    THEN RefusedBeforeScraping
    ELSE AnsweredFromComparison

\* C29 witness: the item number " A", with a blank in front, was compared as
\* "A" and answered 200 with the one price found.
C29_Witness ==
  /\ request.itemNumber = <<" ", "A">>
  /\ scrapers # <<>>
  /\ scrapers.itemNumber = <<"A">>
  /\ reply # <<>>
  /\ reply.status = 200
  /\ Len(SuccessfulPrices(reply.data.prices)) = 1

\* The limiter that counts the requests of a class of paths.
LimiterOf(class) == IF class = "price" THEN "priceLimiter" ELSE "rateLimiter"

====
